---- MODULE Spec2Model ----
(***************************************************************************)
(* The RAG pipeline of SalesFlow AI 2.0: RAGManager (ingestion, deletion,  *)
(* retrieval) over the VectorDatabase (table knowledge_chunks), the record *)
(* store (table knowledge_documents), the blob store (S3Manager) and the   *)
(* EmbeddingService.  Every await of the TypeScript code is one step.      *)
(***************************************************************************)
EXTENDS Integers, Sequences, FiniteSets, TLC

\* ---------------------------------------------------------------- bounds
\* concurrent processDocument calls; call j creates document id j
MaxDocs == 2
\* chunks the DocumentProcessor hands to one processDocument call
MaxChunks == 2
\* provider calls counted per batch (the counter saturates here)
MaxAttempts == 3
\* millisecond readings of Date.now() during chunk creation
MaxTime == 2
\* texts and batch size of a direct generateBatchEmbeddings call
MaxTexts == 3
MaxBatch == 2
\* rows of the index and limit of one searchDocuments request
MaxRows == 2
MaxLimit == 2
\* the longest text handed to the chunkers, and the largest chunkSize and
\* chunkOverlap options
MaxText == 5
MaxSize == 3
MaxOverlap == 2
\* search results handed to one RAGManager.generateAnswer call
MaxResults == 6

\* ------------------------------------------------------ program constants
Dimensions == 1536
DefaultBatchSize == 100
DefaultThreshold == 70
DefaultLimit == 5
DefaultTenant == "default-tenant"

Tenants == {"t1", DefaultTenant}
DocIds == 1..MaxDocs
Contents == {"a", "b"}
NoDoc == [tenant |-> "", vectorized |-> FALSE, indexed |-> FALSE, present |-> FALSE]
\* undefined, where an embedding is expected.  An embedding is kept as its
\* length, the kinds of values among its components and two coordinates.
Undefined == [len |-> 0, kinds |-> {}, v |-> <<0, 0>>]

\* an optional value: undefined, or the value x
None == {}

Some(x) == {x}

Value(o) == CHOOSE x \in o : TRUE

\* no call of a function made
NoCall == [fn |-> "", in |-> <<>>, out |-> <<>>]

VARIABLES
  docs,    \* knowledge_documents: document id -> row (present = row exists)
  index,   \* knowledge_chunks: set of rows
  files,   \* blob store: set of object keys
  job,     \* processDocument calls
  srch,    \* the searchDocuments call
  del,     \* the deleteDocument call
  ecall,   \* a generateBatchEmbeddings call made on the EmbeddingService alone
  fcall    \* a call of one of the other functions: its name, input and result

vars == <<docs, index, files, job, srch, del, ecall, fcall>>

\* ------------------------------------------------------------ helpers
Min(a, b) == IF a < b THEN a ELSE b

\* fault: the slice runs to the end of the list whatever the batch size
SliceToEnd(s, from, to) == SubSeq(s, from + 1, Len(s))

\* text.slice(i, i + batchSize) on 0-based offsets
Slice(s, from, to) == SubSeq(s, from + 1, Min(to, Len(s)))

\* ------------------------------------------------------- DocumentProcessor
\* createChunk: id = `chunk_${index}_${Date.now()}`
ChunkId(idx, now) == <<idx, now>>

\* chunk k (index k - 1) is created at the reading times[k]; its embedding
\* is unset until the Embedder has run
CreateChunks(texts, times) ==
  [k \in 1..Len(texts) |->
     [id |-> ChunkId(k - 1, times[k]), content |-> texts[k],
      embedding |-> Undefined]]

\* ------------------------------------------------------- EmbeddingService
\* the provider's vector for a text (openai.embeddings.create); every vector
\* of the model has Euclidean norm 5, so cosines are exact hundredths
ProviderVector(c) == IF c = "a" THEN <<5, 0>> ELSE <<3, 4>>

\* response.data.map(item => item.embedding) for one batch.  shape "ok": one
\* vector of the model's dimension per input; "short": the response carries
\* one item less than the inputs; "baddim": vectors of another length.
BatchEmbeddings(batch, shape) ==
  LET n == IF shape = "short" THEN Len(batch) - 1 ELSE Len(batch)
      l == IF shape = "baddim" THEN Dimensions - 1 ELSE Dimensions
  IN [k \in 1..n |->
        [len |-> l, kinds |-> {"finite"}, v |-> ProviderVector(batch[k])]]

\* the kinds of values a component of a JavaScript array can be
Kinds == {"finite", "NaN", "Infinity", "-Infinity", "string", "null"}

\* typeof value
TypeOf(c) ==
  CASE c \in {"finite", "NaN", "Infinity", "-Infinity"} -> "number"
    [] c = "string" -> "string"
    [] OTHER -> "object"

\* isNaN(value), for a value of type number
IsNaN(c) == c = "NaN"

\* validateEmbedding: Array.isArray(embedding), the configured length, and
\* every(value => typeof value === 'number' && !isNaN(value))
ValidateEmbedding(e) ==
  /\ e # Undefined
  /\ e.len = Dimensions
  /\ \A c \in e.kinds : TypeOf(c) = "number" /\ ~IsNaN(c)

\* One provider call of processOpenAIBatch for the batch starting at offset
\* c.i of c.texts; attempts counts the provider calls made for that batch.
\* outcome "ok"/"short"/"baddim": the call returns, the vectors are pushed
\* and the loop of generateEmbeddings moves on, after delay(100) when texts
\* are left (st "pause"); "rate_limit": the catch block starts delay(5000)
\* (st "wait"), after which it calls processOpenAIBatch with the same texts;
\* "error": any other failure is rethrown.
ProcessOpenAIBatch(c, outcome) ==
  LET batch == Slice(c.texts, c.i, c.i + c.b)
      more == c.i + c.b < Len(c.texts)
  IN CASE outcome \in {"ok", "short", "baddim"} ->
            [c EXCEPT !.out = @ \o BatchEmbeddings(batch, outcome),
                      !.i = c.i + c.b,
                      !.attempts = Min(@ + 1, MaxAttempts),
                      !.st = IF more THEN "pause" ELSE "ok"]
       [] outcome = "rate_limit" ->
            [c EXCEPT !.attempts = Min(@ + 1, MaxAttempts), !.st = "wait"]
       [] OTHER ->
            [c EXCEPT !.st = "err", !.attempts = Min(@ + 1, MaxAttempts)]

\* the timer of delay(ms) fires and the call goes on to its next provider
\* call: of the same batch after delay(5000), of the next batch after
\* delay(100)
Delay(c) ==
  [c EXCEPT !.st = "run", !.attempts = IF c.st = "pause" THEN 0 ELSE @]

\* a provider call together with the delay that follows it, for the calls
\* made inside the pipeline (their count of provider calls is not kept)
ProviderCall(c, outcome) ==
  LET r == ProcessOpenAIBatch(c, outcome)
  IN [r EXCEPT !.attempts = 0,
               !.st = IF r.st \in {"wait", "pause"} THEN "run" ELSE r.st]

\* generateEmbeddings(texts, batchSize): the state of the call on entry; an
\* empty text list never enters the loop and returns at once
NewEmbedCall(texts, b) ==
  [texts |-> texts, b |-> b, i |-> 0, attempts |-> 0, out |-> <<>>,
   st |-> IF Len(texts) = 0 THEN "ok" ELSE "run"]

IdleEmbedCall == [NewEmbedCall(<<>>, DefaultBatchSize) EXCEPT !.st = "idle"]

Outcomes == {"ok", "short", "baddim", "rate_limit", "error"}

\* ---------------------------------------------------------- VectorDatabase
\* extractTenantFromDocumentId: the tenant written into every index row
ExtractTenantFromDocumentId(documentId) == DefaultTenant

\* chunks.map(...) of indexChunks: one row of knowledge_chunks per chunk
VectorRecords(documentId, chunks) ==
  {[chunk_id |-> chunks[k].id, document_id |-> documentId,
    tenant_id |-> ExtractTenantFromDocumentId(documentId),
    content |-> chunks[k].content, embedding |-> chunks[k].embedding]
     : k \in 1..Len(chunks)}

\* the table definition of createChunksTable: chunk_id is UNIQUE and the
\* embedding column is vector(dimensions), nullable.  The identifiers are
\* opaque values here: a store that refuses the tenant_id or document_id
\* written by indexChunks (the columns are declared UUID) answers the
\* insert with an error, which is the case ok = FALSE of IndexChunks.
InsertAccepted(table, chunks) ==
  /\ \A k \in 1..Len(chunks) : \A r \in table : r.chunk_id # chunks[k].id
  /\ \A k, l \in 1..Len(chunks) : chunks[k].id = chunks[l].id => k = l
  /\ \A k \in 1..Len(chunks) :
        chunks[k].embedding = Undefined \/ chunks[k].embedding.len = Dimensions

\* fault: the rows are inserted one statement per row and the writing stops
\* after the first
InsertRowsOneByOne(table, rows) ==
  table \cup {r \in rows : r.chunk_id[1] = 0}

\* supabase .insert(vectorRecords): one statement, all rows or none
InsertRows(table, rows) == table \cup rows

\* .delete().eq('document_id', documentId).eq('tenant_id', tenantId)
DeleteDocumentRows(table, documentId, tenantId) ==
  {r \in table : ~(r.document_id = documentId /\ r.tenant_id = tenantId)}

\* .delete().in('chunk_id', chunkIds).eq('tenant_id', tenantId)
DeleteChunkRows(table, chunkIds, tenantId) ==
  {r \in table : ~(r.chunk_id \in chunkIds /\ r.tenant_id = tenantId)}

\* cosine similarity in hundredths; pgvector's 1 - (a <=> b)
Dot(a, b) == a[1] * b[1] + a[2] * b[2]

Norm(a) == CHOOSE n \in 0..10 : n * n = Dot(a, a)

Cosine100(a, b) == (Dot(a, b) * 100) \div (Norm(a) * Norm(b))

\* the sequences that hold every hit of S once, in non-increasing order of
\* score; hits of equal score come in any order (ORDER BY similarity DESC)
RECURSIVE OrderedByScore(_)
OrderedByScore(S) ==
  IF S = {} THEN {<<>>}
  ELSE UNION {{<<h>> \o t : t \in OrderedByScore(S \ {h})}
                : h \in {x \in S : \A y \in S : x.score >= y.score}}

\* Array.prototype.sort with the comparator b.score - a.score: stable,
\* descending
RECURSIVE InsertDesc(_, _)
InsertDesc(x, s) ==
  IF s = <<>> THEN <<x>>
  ELSE IF x.score > Head(s).score THEN <<x>> \o s
  ELSE <<Head(s)>> \o InsertDesc(x, Tail(s))

RECURSIVE SortDesc(_)
SortDesc(s) ==
  IF s = <<>> THEN <<>>
  ELSE InsertDesc(s[Len(s)], SortDesc(SubSeq(s, 1, Len(s) - 1)))

\* the rows the rpc call works on: the rows left by .eq('tenant_id', ..) when
\* the chained filter reaches the function call, the whole table when the
\* function runs as it is written (FROM knowledge_chunks kc, no tenant test)
RpcRows(table, tenantId, scoped) ==
  IF scoped THEN {r \in table : r.tenant_id = tenantId} ELSE table

\* fault: WHERE similarity >= match_threshold
MatchChunksInclusive(rows, query, threshold, count) ==
  LET sim(r) == Cosine100(r.embedding.v, query.v)
      eligible == {r \in rows : /\ r.embedding # Undefined
                                /\ query # Undefined
                                /\ sim(r) >= threshold}
  IN {SubSeq(t, 1, Min(count, Len(t))) :
        t \in OrderedByScore({[row |-> r, score |-> 1000 * sim(r)]
                               : r \in eligible})}

\* SQL function match_chunks; a NULL embedding or a NULL query compares as
\* NULL and the row is not selected.  Scores are in units of 10^-5.
MatchChunks(rows, query, threshold, count) ==
  LET sim(r) == Cosine100(r.embedding.v, query.v)
      eligible == {r \in rows : /\ r.embedding # Undefined
                                /\ query # Undefined
                                /\ sim(r) > threshold}
  IN {SubSeq(t, 1, Min(count, Len(t))) :
        t \in OrderedByScore({[row |-> r, score |-> 1000 * sim(r)]
                               : r \in eligible})}

\* length of a chunk's content in characters
ContentLength(c) == IF c = "a" THEN 50 ELSE 500

\* rerankResults: x1.1 for content of 101..999 characters, x1.05 when the
\* row's metadata carries salesMetadata (indexChunks always writes it)
RerankingScore(h) ==
  LET l == ContentLength(h.row.content)
      s1 == IF l > 100 /\ l < 1000 THEN (h.score * 11) \div 10 ELSE h.score
  IN (s1 * 105) \div 100

RerankResults(hits) ==
  SortDesc([k \in 1..Len(hits) |->
              [row |-> hits[k].row, score |-> RerankingScore(hits[k])]])

\* ------------------------------------------------------------- S3Manager
\* buildKey(tenantId, 'knowledge-base', `${document.id}_${filename}`)
BuildKey(tenantId, documentId) == [tenant |-> tenantId, doc |-> documentId]

\* listTenantFiles(tenantId, 'knowledge-base'): the keys under the prefix
\* salesflow-shared/<tenantId>/knowledge-base/
ListTenantFiles(store, tenantId) == {f \in store : f.tenant = tenantId}

\* files.filter(f => f.key.includes(documentId))
RelatedFiles(listed, documentId) == {f \in listed : f.doc = documentId}

\* ------------------------------------------------- RAGManager.processDocument
\* tenant and n (the number of chunks handed over by the DocumentProcessor)
\* stay with a call after it has returned; its other locals are dropped
IdleJob ==
  [pc |-> "idle", tenant |-> "", n |-> 0, chunks |-> <<>>,
   emb |-> IdleEmbedCall, stage |-> "", tag |-> "", blank |-> FALSE]

\* what extractText gives DocumentProcessor.process: a text with content, a
\* text that is empty after trim(), or an error.  process answers the last
\* two with success: false and no chunks.
Extractions == {"text", "blank", "error"}

\* generateChunkEmbeddings: chunk k gets embeddings[k], undefined when the
\* provider's list is shorter than the chunk list
WithEmbeddings(chunks, embeddings) ==
  [k \in 1..Len(chunks) |->
     [id |-> chunks[k].id, content |-> chunks[k].content,
      embedding |-> IF k <= Len(embeddings) THEN embeddings[k] ELSE Undefined]]

\* the processingStage of the DocumentProcessingError that leaves
\* processDocument: the catch block wraps whatever was thrown in its try,
\* the 'EXTRACTION_FAILED' error thrown there included
ProcessingStage(stage) == "PROCESSING_FAILED"

\* the catch block of processDocument: every failure is rethrown as a
\* DocumentProcessingError; stage records the step that failed, tag the
\* processingStage of the error raised
Fail(j, stage) ==
  job' = [job EXCEPT ![j].pc = "failed", ![j].stage = stage,
                     ![j].tag = ProcessingStage(stage),
                     ![j].chunks = <<>>, ![j].emb = IdleEmbedCall]

\* documentProcessor.process(request), then the entry of
\* generateChunkEmbeddings.  times[k] is the Date.now() read for chunk k.
\* Calls are numbered in the order in which they start, and the clock
\* reads 1 when the first chunk of the first call is created.
Process(j, tenantId, texts, times, extracted) ==
  /\ job[j].pc = "idle"
  /\ \A i \in 1..(j - 1) : job[i].pc # "idle"
  /\ j = 1 => times[1] = 1
  /\ IF extracted = "text"
     THEN job' = [job EXCEPT ![j] =
                 [pc |-> "embed", tenant |-> tenantId, n |-> Len(texts),
                  chunks |-> CreateChunks(texts, times),
                  emb |-> NewEmbedCall(texts, DefaultBatchSize),
                  stage |-> "", tag |-> "", blank |-> FALSE]]
     ELSE job' = [job EXCEPT ![j].pc = "failed", ![j].tenant = tenantId,
                             ![j].stage = "extract",
                             ![j].tag = ProcessingStage("extract"),
                             ![j].blank = (extracted = "blank")]
  /\ UNCHANGED <<docs, index, files, srch, del, ecall, fcall>>

\* one provider call made for generateBatchEmbeddings
EmbedChunks(j, outcome) ==
  /\ job[j].pc = "embed"
  /\ job[j].emb.st = "run"
  /\ LET c == ProviderCall(job[j].emb, outcome)
     IN CASE c.st = "ok" ->
               job' = [job EXCEPT ![j].pc = "save", ![j].emb = IdleEmbedCall,
                                  ![j].chunks = WithEmbeddings(@, c.out)]
          [] c.st = "err" -> Fail(j, "embed")
          [] OTHER -> job' = [job EXCEPT ![j].emb = c]
  /\ UNCHANGED <<docs, index, files, srch, del, ecall, fcall>>

\* saveDocument: insert into knowledge_documents, vectorized false
SaveDocument(j, ok) ==
  /\ job[j].pc = "save"
  /\ IF ok
     THEN /\ docs' = [docs EXCEPT ![j] =
                 [tenant |-> job[j].tenant, vectorized |-> FALSE,
                  indexed |-> FALSE, present |-> TRUE]]
          /\ job' = [job EXCEPT ![j].pc = "index"]
     ELSE /\ Fail(j, "save")
          /\ UNCHANGED docs
  /\ UNCHANGED <<index, files, srch, del, ecall, fcall>>

\* fault: indexChunks without its test of the insert's error
IndexChunksUnchecked(j, ok) ==
  /\ job[j].pc = "index"
  /\ index' = IF ok /\ InsertAccepted(index, job[j].chunks)
              THEN InsertRows(index, VectorRecords(j, job[j].chunks))
              ELSE index
  /\ job' = [job EXCEPT ![j].pc = "status", ![j].chunks = <<>>]
  /\ UNCHANGED <<docs, files, srch, del, ecall, fcall>>

\* indexDocumentChunks -> VectorDatabase.indexChunks
IndexChunks(j, ok) ==
  /\ job[j].pc = "index"
  /\ IF ok /\ InsertAccepted(index, job[j].chunks)
     THEN /\ index' = InsertRows(index, VectorRecords(j, job[j].chunks))
          /\ job' = [job EXCEPT ![j].pc = "status", ![j].chunks = <<>>]
     ELSE /\ Fail(j, "index")
          /\ UNCHANGED index
  /\ UNCHANGED <<docs, files, srch, del, ecall, fcall>>

\* updateDocumentStatus(document.id, {vectorized: true, indexed: true}); an
\* update that matches no row is not an error.  hasFile is the test of
\* request.source.file that follows.
UpdateDocumentStatus(j, hasFile, ok) ==
  /\ job[j].pc = "status"
  /\ IF ok
     THEN /\ docs' = IF docs[j].present
                     THEN [docs EXCEPT ![j].vectorized = TRUE,
                                       ![j].indexed = TRUE]
                     ELSE docs
          /\ job' = [job EXCEPT ![j].pc = IF hasFile THEN "upload" ELSE "done"]
     ELSE /\ Fail(j, "status")
          /\ UNCHANGED docs
  /\ UNCHANGED <<index, files, srch, del, ecall, fcall>>

\* s3Manager.uploadFile of the original
UploadFile(j, ok) ==
  /\ job[j].pc = "upload"
  /\ IF ok
     THEN /\ files' = files \cup {BuildKey(job[j].tenant, j)}
          /\ job' = [job EXCEPT ![j].pc = "done"]
     ELSE /\ Fail(j, "upload")
          /\ UNCHANGED files
  /\ UNCHANGED <<docs, index, srch, del, ecall, fcall>>

\* ------------------------------------------------- RAGManager.deleteDocument
\* vecFailed, recFailed, s3Failed: the step whose error the call has caught;
\* they stay with the call after it has returned (pc "done") or raised
IdleDelete ==
  [pc |-> "idle", doc |-> 0, tenant |-> "", todo |-> {},
   vecFailed |-> FALSE, recFailed |-> FALSE, s3Failed |-> FALSE]

Returned == [IdleDelete EXCEPT !.pc = "done"]

\* the call is entered with any document id and any tenant id
StartDelete(documentId, tenantId) ==
  /\ del.pc \in {"idle", "done", "raised"}
  /\ del' = [IdleDelete EXCEPT !.pc = "vectors", !.doc = documentId,
                               !.tenant = tenantId]
  /\ UNCHANGED <<docs, index, files, job, srch, ecall, fcall>>

\* vectorDb.deleteDocument(documentId, tenantId); an error is rethrown and
\* reaches the outer catch, which raises a RAGError
DeleteVectors(ok) ==
  /\ del.pc = "vectors"
  /\ IF ok
     THEN /\ index' = DeleteDocumentRows(index, del.doc, del.tenant)
          /\ del' = [del EXCEPT !.pc = "record"]
     ELSE /\ del' = [IdleDelete EXCEPT !.pc = "raised", !.vecFailed = TRUE]
          /\ UNCHANGED index
  /\ UNCHANGED <<docs, files, job, srch, ecall, fcall>>

\* knowledge_documents .delete().eq('id', ..).eq('tenant_id', ..)
DeleteRecord(ok) ==
  /\ del.pc = "record"
  /\ IF ok
     THEN /\ docs' = IF docs[del.doc].present /\ docs[del.doc].tenant = del.tenant
                     THEN [docs EXCEPT ![del.doc] = NoDoc]
                     ELSE docs
          /\ del' = [del EXCEPT !.pc = "list"]
     ELSE /\ del' = [IdleDelete EXCEPT !.pc = "raised", !.recFailed = TRUE]
          /\ UNCHANGED docs
  /\ UNCHANGED <<index, files, job, srch, ecall, fcall>>

\* fault: the listing outside the inner try, so that its failure reaches
\* the outer catch
ListFilesUncaught(ok) ==
  /\ del.pc = "list"
  /\ IF ok
     THEN LET related == RelatedFiles(ListTenantFiles(files, del.tenant), del.doc)
          IN del' = IF related = {} THEN Returned
                    ELSE [del EXCEPT !.todo = related, !.pc = "files"]
     ELSE del' = [IdleDelete EXCEPT !.pc = "raised", !.s3Failed = TRUE]
  /\ UNCHANGED <<docs, index, files, job, srch, ecall, fcall>>

\* s3Manager.listTenantFiles and the filter on the document id; a failure is
\* caught by the inner catch and logged, and the call returns
ListFiles(ok) ==
  /\ del.pc = "list"
  /\ IF ok
     THEN LET related == RelatedFiles(ListTenantFiles(files, del.tenant), del.doc)
          IN del' = IF related = {} THEN Returned
                    ELSE [del EXCEPT !.todo = related, !.pc = "files"]
     ELSE del' = [Returned EXCEPT !.s3Failed = TRUE]
  /\ UNCHANGED <<docs, index, files, job, srch, ecall, fcall>>

\* one s3Manager.deleteFile(file.key) of the loop
DeleteFile(f, ok) ==
  /\ del.pc = "files"
  /\ f \in del.todo
  /\ IF ok
     THEN /\ files' = files \ {f}
          /\ del' = IF del.todo = {f} THEN Returned
                    ELSE [del EXCEPT !.todo = @ \ {f}]
     ELSE /\ del' = [Returned EXCEPT !.s3Failed = TRUE]
          /\ UNCHANGED files
  /\ UNCHANGED <<docs, index, job, srch, ecall, fcall>>

\* VectorDatabase.deleteChunks(chunkIds, tenantId), called on the index directly
\* (a call that fails or matches no row leaves every store as it was)
DeleteChunks(chunkIds, tenantId) ==
  /\ index' = DeleteChunkRows(index, chunkIds, tenantId)
  /\ index' # index
  /\ UNCHANGED <<docs, files, job, srch, del, ecall, fcall>>

\* ------------------------------------------------- RAGManager.searchDocuments
IdleSearch ==
  [pc |-> "idle", tenant |-> "", emb |-> IdleEmbedCall, hits |-> <<>>,
   k |-> 0, fetchFailed |-> FALSE, results |-> <<>>]

\* NaN, where a score is expected (scores are never negative)
NaN == -1

\* an entry of results: the hit with its salesRelevanceScore (undefined when
\* the request has no sales context)
Result(h, sales) == [row |-> h.row, score |-> h.score, sales |-> sales]

\* the sort key of searchDocuments, doubled to stay in integers:
\* a.salesRelevanceScore ? (a.relevanceScore + a.salesRelevanceScore) / 2
\*                        : a.relevanceScore
\* (undefined, 0 and NaN are falsy)
CombinedScore(r) ==
  IF r.sales # None /\ Value(r.sales) # 0 /\ Value(r.sales) # NaN
  THEN r.score + Value(r.sales)
  ELSE 2 * r.score

\* results.sort by the combined score, descending, and
\* results.slice(0, limit)
RankAndSlice(results, limit) ==
  LET keyed == [k \in 1..Len(results) |->
                  [score |-> CombinedScore(results[k]), result |-> results[k]]]
      sorted == SortDesc(keyed)
  IN [k \in 1..Min(limit, Len(sorted)) |-> sorted[k].result]

\* the call is entered; embeddingService.generateEmbedding(request.query)
StartSearch(tenantId, query) ==
  /\ srch.pc \in {"idle", "done", "failed"}
  /\ srch' = [IdleSearch EXCEPT !.pc = "embed", !.tenant = tenantId,
                                !.emb = NewEmbedCall(<<query>>, DefaultBatchSize)]
  /\ UNCHANGED <<docs, index, files, job, del, ecall, fcall>>

\* one provider call for the query embedding
EmbedQuery(outcome) ==
  /\ srch.pc = "embed"
  /\ srch.emb.st = "run"
  /\ LET c == ProviderCall(srch.emb, outcome)
     IN srch' = [srch EXCEPT
                   !.emb = IF c.st = "err" THEN IdleEmbedCall ELSE c,
                             !.pc = CASE c.st = "ok" -> "search"
                                      [] c.st = "err" -> "failed"
                                      [] OTHER -> "embed"]
  /\ UNCHANGED <<docs, index, files, job, del, ecall, fcall>>

\* vectorDb.search(vectorSearchRequest): embeddings[0] is the query vector
\* (undefined when the provider's list is empty); a query vector of another
\* dimension than the column's makes the database reject the call
VectorSearch(scoped, ok) ==
  /\ srch.pc = "search"
  /\ LET q == IF Len(srch.emb.out) > 0 THEN srch.emb.out[1] ELSE Undefined
     IN IF ok /\ (q = Undefined \/ q.len = Dimensions)
        THEN \E hits \in MatchChunks(RpcRows(index, srch.tenant, scoped), q,
                                     DefaultThreshold, DefaultLimit) :
               LET ranked == RerankResults(hits)
               IN srch' = [srch EXCEPT
                    !.emb = IdleEmbedCall, !.hits = ranked,
                    !.k = IF ranked = <<>> THEN 0 ELSE 1,
                    !.pc = IF ranked = <<>> THEN "done" ELSE "fetch"]
        ELSE srch' = [srch EXCEPT !.emb = IdleEmbedCall, !.pc = "failed"]
  /\ UNCHANGED <<docs, index, files, job, del, ecall, fcall>>

\* getDocument(documentId, tenantId) for the hit at position k: an error of
\* the record store, and .single() finding no row, both give null, and the
\* hit is skipped.  These requests carry no sales context.  After the last
\* hit the results are sorted and sliced.
GetDocument(ok) ==
  /\ srch.pc = "fetch"
  /\ LET h == srch.hits[srch.k]
         d == docs[h.row.document_id]
         found == ok /\ d.present /\ d.tenant = srch.tenant
         res == IF found THEN Append(srch.results, Result(h, None))
                         ELSE srch.results
         last == srch.k = Len(srch.hits)
     IN srch' = [srch EXCEPT
          !.results = IF last THEN RankAndSlice(res, DefaultLimit) ELSE res,
          !.fetchFailed = @ \/ ~ok,
          !.k = IF last THEN 0 ELSE @ + 1,
          !.pc = IF last THEN "done" ELSE "fetch"]
  /\ UNCHANGED <<docs, index, files, job, del, ecall, fcall>>

\* ------------------------------- EmbeddingService.generateBatchEmbeddings
\* a call made on the service directly, with any texts and batch size
StartEmbed(texts, b) ==
  /\ ecall.st \in {"idle", "ok", "err"}
  /\ ecall' = NewEmbedCall(texts, b)
  /\ UNCHANGED <<docs, index, files, job, srch, del, fcall>>

\* one provider call of that call
EmbedBatch(outcome) ==
  /\ ecall.st = "run"
  /\ ecall' = ProcessOpenAIBatch(ecall, outcome)
  /\ UNCHANGED <<docs, index, files, job, srch, del, fcall>>

\* delay(5000) after a throttled call, delay(100) between two batches
EmbedDelay ==
  /\ ecall.st \in {"wait", "pause"}
  /\ ecall' = Delay(ecall)
  /\ UNCHANGED <<docs, index, files, job, srch, del, fcall>>

\* ----------------------------------------- EmbeddingService.processBatch
EmbedProviders == {"openai", "huggingface", "custom", "other"}

\* the constructor: the OpenAI client is created for provider openai only,
\* and the field this.openai is undefined otherwise
NewEmbeddingService(provider) ==
  [provider |-> provider, openai |-> provider = "openai"]

\* processOpenAIBatch on a service: this.openai.embeddings.create throws a
\* TypeError when this.openai is undefined, which the catch rethrows (its
\* code is not 'rate_limit_exceeded'); ok is the answer of the client
CallOpenAI(service, ok) ==
  IF service.openai THEN [called |-> {"openai"}, raised |-> ~ok]
  ELSE [called |-> {}, raised |-> TRUE]

\* fault: processHuggingFaceBatch reaches an OpenAI client, created when it
\* is missing
ProcessBatchFallback(service, ok) ==
  CASE service.provider \in {"openai", "huggingface"} ->
         [called |-> {"openai"}, raised |-> ~ok]
    [] OTHER -> [called |-> {}, raised |-> TRUE]

\* the switch of processBatch with processHuggingFaceBatch (which calls
\* processOpenAIBatch) and processCustomBatch (which throws)
ProcessBatch(service, ok) ==
  CASE service.provider = "openai" -> CallOpenAI(service, ok)
    [] service.provider = "huggingface" -> CallOpenAI(service, ok)
    [] service.provider = "custom" -> [called |-> {}, raised |-> TRUE]
    [] OTHER -> [called |-> {}, raised |-> TRUE]

\* generateEmbeddings(texts) on a service constructed for provider: the
\* loop hands every batch to processBatch and the first error ends the
\* call; with no texts the loop is not entered and the call returns
GenerateEmbeddings(provider, texts, ok) ==
  /\ fcall = NoCall
  /\ fcall' = [fn |-> "generateEmbeddings",
               in |-> [provider |-> provider, texts |-> texts, ok |-> ok],
               out |-> IF texts = <<>>
                       THEN [called |-> {}, raised |-> FALSE]
                       ELSE ProcessBatch(NewEmbeddingService(provider), ok)]
  /\ UNCHANGED <<docs, index, files, job, srch, del, ecall>>

\* ------------------------------------- EmbeddingService.validateEmbedding
\* the arrays handed to validateEmbedding: any length around the configured
\* one, any kinds of components
Embeddings ==
  {[len |-> l, kinds |-> ks, v |-> <<0, 0>>] :
     l \in {Dimensions - 1, Dimensions, Dimensions + 1},
     ks \in (SUBSET Kinds) \ {{}}}

Validate(e) ==
  /\ fcall' = [fn |-> "validateEmbedding", in |-> e,
               out |-> ValidateEmbedding(e)]
  /\ UNCHANGED <<docs, index, files, job, srch, del, ecall>>

\* ------------------------- RAGManager.searchDocuments as one computation
\* what getDocument returns for a hit: null (no record of the tenant, or a
\* failed read), or the record with its salesMetadata (which may be absent)
\* and the day it was created (createdAt; searchDocuments reads no date)
NoDocument ==
  [found |-> FALSE, hasSales |-> FALSE, productIds |-> {}, salesStages |-> {},
   customerSegments |-> {}, accessCount |-> 0, createdAt |-> 0]

Documents ==
  {NoDocument,
   [NoDocument EXCEPT !.found = TRUE, !.createdAt = 1],
   [NoDocument EXCEPT !.found = TRUE, !.createdAt = 2],
   [found |-> TRUE, hasSales |-> TRUE, productIds |-> {}, salesStages |-> {},
    customerSegments |-> {}, accessCount |-> 11, createdAt |-> 1],
   [found |-> TRUE, hasSales |-> TRUE, productIds |-> {"p1"},
    salesStages |-> {"demo"}, customerSegments |-> {"smb"},
    accessCount |-> 11, createdAt |-> 1]}

\* request.salesContext: absent, or with some of its optional fields (an
\* absent string field is ""); a productIds array given here is not empty
NoContext ==
  [given |-> FALSE, hasProductIds |-> FALSE, productIds |-> {},
   salesStage |-> "", customerSegment |-> "", urgencyLevel |-> ""]

Contexts ==
  {NoContext,
   [NoContext EXCEPT !.given = TRUE, !.urgencyLevel = "high"],
   [given |-> TRUE, hasProductIds |-> TRUE, productIds |-> {"p1"},
    salesStage |-> "demo", customerSegment |-> "smb",
    urgencyLevel |-> "high"]}

\* calculateSalesRelevance, in units of 10^-5.  An empty array is truthy:
\* with context.productIds = [] the overlap term is 0 / 0, which is NaN,
\* and NaN stays through the additions and Math.min.
CalculateSalesRelevance(document, context) ==
  LET empty == /\ context.hasProductIds /\ document.hasSales
               /\ context.productIds = {}
      product ==
        IF context.hasProductIds /\ document.hasSales /\ ~empty
        THEN (Cardinality(context.productIds \cap document.productIds) * 30000)
               \div Cardinality(context.productIds)
        ELSE 0
      stage ==
        IF /\ context.salesStage # ""
           /\ document.hasSales
           /\ context.salesStage \in document.salesStages
        THEN 20000 ELSE 0
      segment ==
        IF /\ context.customerSegment # ""
           /\ document.hasSales
           /\ context.customerSegment \in document.customerSegments
        THEN 20000 ELSE 0
      urgency == IF context.urgencyLevel = "critical" THEN 10000 ELSE 0
      usage == IF document.hasSales /\ document.accessCount > 10
               THEN 20000 ELSE 0
  IN IF empty THEN NaN
     ELSE Min(product + stage + segment + urgency + usage, 100000)

\* the documents and contexts of direct calls of calculateSalesRelevance: a
\* document with or without salesMetadata, a context with or without a
\* productIds array, which may be empty
SalesDocuments ==
  {[NoDocument EXCEPT !.found = TRUE, !.createdAt = 1]}
    \cup [found : {TRUE}, hasSales : {TRUE},
          productIds : SUBSET {"p1", "p2"}, salesStages : {{}, {"demo"}},
          customerSegments : {{}, {"smb"}}, accessCount : {10, 11},
          createdAt : {1}]

SalesContexts ==
  {c \in [given : {TRUE}, hasProductIds : BOOLEAN,
          productIds : SUBSET {"p1", "p2"}, salesStage : {"", "demo", "close"},
          customerSegment : {"", "smb"},
          urgencyLevel : {"", "high", "critical"}] :
     ~c.hasProductIds => c.productIds = {}}

\* a call of calculateSalesRelevance
SalesRelevance(document, context) ==
  /\ fcall = NoCall
  /\ fcall' = [fn |-> "calculateSalesRelevance",
               in |-> [document |-> document, context |-> context],
               out |-> CalculateSalesRelevance(document, context)]
  /\ UNCHANGED <<docs, index, files, job, srch, del, ecall>>

\* the sales filters of applyFilters are set when the context names product
\* ids, a sales stage or a customer segment
HasSalesFilter(context) ==
  /\ context.given
  /\ \/ context.hasProductIds /\ context.productIds # {}
     \/ context.salesStage # ""
     \/ context.customerSegment # ""

\* the rows left by the overlaps filters of applyFilters when the chained
\* filters reach the function call: the metadata written by indexChunks has
\* no productIds, salesStages or customerSegments under salesMetadata, so
\* no row overlaps
ApplyFilters(rows, context, scoped) ==
  IF scoped /\ HasSalesFilter(context) THEN {} ELSE rows

\* request.limit || defaultLimit and request.threshold || defaultThreshold
\* (0 stands for a field that is 0 or not given)
EffectiveLimit(limit) == IF limit = 0 THEN DefaultLimit ELSE limit

EffectiveThreshold(threshold) ==
  IF threshold = 0 THEN DefaultThreshold ELSE threshold

\* the loop over the hits: a hit whose document is null is skipped, the
\* others get their salesRelevanceScore when the request has a context
RECURSIVE ToResults(_, _)
ToResults(hits, context) ==
  IF hits = <<>> THEN <<>>
  ELSE LET h == Head(hits)
           rest == ToResults(Tail(hits), context)
       IN IF ~h.row.document.found THEN rest
          ELSE <<Result(h, IF context.given
                           THEN Some(CalculateSalesRelevance(h.row.document,
                                                             context))
                           ELSE None)>> \o rest

\* the embeddings stored with the rows and produced for the queries
Vectors == {<<5, 0>>, <<4, 3>>, <<3, 4>>}

Embedding(v) == [len |-> Dimensions, kinds |-> {"finite"}, v |-> v]

\* a row of the index together with what getDocument returns for it
CandidateRows ==
  {[embedding |-> Embedding(v), content |-> c, document |-> d] :
     v \in Vectors, c \in Contents, d \in Documents}

\* the sets of at most n rows
RECURSIVE RowSets(_)
RowSets(n) ==
  IF n = 0 THEN {{}}
  ELSE LET S == RowSets(n - 1)
       IN S \cup {R \cup {r} : R \in S, r \in CandidateRows}

Thresholds == {0, 80, 97}

\* a request with the behaviour of the index during the call: ok is the
\* answer of the rpc call, scoped whether the chained filters reach it
SearchRequests ==
  [rows : RowSets(MaxRows), query : {<<5, 0>>, <<4, 3>>},
   threshold : Thresholds, limit : 0..MaxLimit, context : Contexts,
   scoped : BOOLEAN, ok : BOOLEAN]

\* searchDocuments(request) over the index rows request.rows, with the
\* query embedded as request.query.  A failed vector search raises.
\* Nothing is kept from one call to the next: a call starts from NoCall.
SearchDocuments(request) ==
  LET limit == EffectiveLimit(request.limit)
      threshold == EffectiveThreshold(request.threshold)
      rows == ApplyFilters(request.rows, request.context, request.scoped)
  IN /\ fcall = NoCall
     /\ IF request.ok
        THEN \E hits \in MatchChunks(rows, Embedding(request.query),
                                     threshold, limit) :
               fcall' = [fn |-> "searchDocuments", in |-> request,
                         out |-> [raised |-> FALSE,
                                  results |->
                                    RankAndSlice(
                                      ToResults(RerankResults(hits),
                                                request.context),
                                      limit)]]
        ELSE fcall' = [fn |-> "searchDocuments", in |-> request,
                       out |-> [raised |-> TRUE, results |-> <<>>]]
     /\ UNCHANGED <<docs, index, files, job, srch, del, ecall>>

\* ------------------------------------------------------ GenerationService
\* the number of uncertainty phrases calculateConfidence looks for
UncertaintyPhrases == 8

\* fault: the confidence is returned as computed, without Math.max/Math.min
CalculateConfidenceUnclamped(a) ==
  LET long == IF a.answerLength > 200 THEN 1000 ELSE 0
      detailed == IF a.answerLength > 500 THEN 1000 ELSE 0
      ratio == (a.overlap * 3000) \div Min(a.contextWords, 100)
  IN 5000 + long + detailed + ratio - 1000 * a.phrases

\* calculateConfidence, in units of 10^-4.  a gives what the function reads
\* off its two texts: the length of the answer, the number of words of the
\* context (split(' ') yields at least one), the number of those longer
\* than 3 characters that occur in the answer, and the number of
\* uncertainty phrases the answer contains.
CalculateConfidence(a) ==
  LET long == IF a.answerLength > 200 THEN 1000 ELSE 0
      detailed == IF a.answerLength > 500 THEN 1000 ELSE 0
      ratio == (a.overlap * 3000) \div Min(a.contextWords, 100)
      confidence == 5000 + long + detailed + ratio - 1000 * a.phrases
  IN IF confidence > 9500 THEN 9500
     ELSE IF confidence < 1000 THEN 1000 ELSE confidence

\* the answers and contexts of the calls: an answer that shares a word of
\* more than 3 characters with the context has at least 4 characters, one
\* that contains k uncertainty phrases at least 5 k
Answers ==
  {a \in [answerLength : {0, 200, 201, 500, 501},
          contextWords : {1, 3, 100, 150},
          overlap : {0, 1, 3, 100, 150},
          phrases : 0..UncertaintyPhrases] :
     /\ a.overlap <= a.contextWords
     /\ a.overlap > 0 => a.answerLength >= 4
     /\ a.answerLength >= 5 * a.phrases}

Providers == {"openai", "anthropic", "yandex", "other"}

\* the constructor: the client of the configured provider is created, and
\* only for openai and anthropic
NewGenerationService(provider) ==
  [provider |-> provider, openai |-> provider = "openai",
   anthropic |-> provider = "anthropic"]

\* fault: a provider without a client of its own is served by the OpenAI
\* client, created on demand
GenerateWithFallback(service, ok) ==
  CASE service.provider = "anthropic" /\ service.anthropic ->
         [called |-> {"anthropic"}, raised |-> ~ok]
    [] OTHER -> [called |-> {"openai"}, raised |-> ~ok]

\* the switch of generateAnswer with generateWithOpenAI,
\* generateWithAnthropic and generateWithYandex: the clients called and
\* whether an error is thrown; ok is the answer of the client called
GenerateWith(service, ok) ==
  CASE service.provider = "openai" ->
         IF service.openai
         THEN [called |-> {"openai"}, raised |-> ~ok]
         ELSE [called |-> {}, raised |-> TRUE]
    [] service.provider = "anthropic" ->
         IF service.anthropic
         THEN [called |-> {"anthropic"}, raised |-> ~ok]
         ELSE [called |-> {}, raised |-> TRUE]
    [] service.provider = "yandex" -> [called |-> {}, raised |-> TRUE]
    [] OTHER -> [called |-> {}, raised |-> TRUE]

\* GenerationService.generateAnswer on a service constructed for provider:
\* the provider's answer a goes through calculateConfidence; any error is
\* rethrown as 'Answer generation failed'
GenerateAnswer(provider, a, ok) ==
  LET r == GenerateWith(NewGenerationService(provider), ok)
  IN /\ fcall = NoCall
     /\ fcall' = [fn |-> "generateAnswer",
                  in |-> [provider |-> provider, answer |-> a, ok |-> ok],
                  out |-> [called |-> r.called, raised |-> r.raised,
                           confidence |-> IF r.raised THEN 0
                                          ELSE CalculateConfidence(a)]]
     /\ UNCHANGED <<docs, index, files, job, srch, del, ecall>>

\* ------------------------------------------- DocumentProcessor: chunking
\* A text is a sequence of characters: a letter, a sentence end, a heading
\* mark and a line feed.  The blank comes in with join(' ').
Chars == {"x", ".", "#", "\n"}

\* \s
IsSpace(c) == c \in {"\n", " "}

RECURSIVE Spaces(_, _)
\* the length of the run of white space that starts at s[i]
Spaces(s, i) ==
  IF i <= Len(s) /\ IsSpace(s[i]) THEN 1 + Spaces(s, i + 1) ELSE 0

RECURSIVE SpacesBefore(_, _)
\* the length of the run of white space that ends at s[i]
SpacesBefore(s, i) ==
  IF i >= 1 /\ IsSpace(s[i]) THEN 1 + SpacesBefore(s, i - 1) ELSE 0

RECURSIVE Hashes(_, _)
\* the length of the run of heading marks that starts at s[i]
Hashes(s, i) ==
  IF i <= Len(s) /\ s[i] = "#" THEN 1 + Hashes(s, i + 1) ELSE 0

\* String.prototype.trim
Trim(s) ==
  IF Spaces(s, 1) = Len(s) THEN <<>>
  ELSE SubSeq(s, Spaces(s, 1) + 1, Len(s) - SpacesBefore(s, Len(s)))

NonBlank(s) == Len(Trim(s)) > 0

\* String.prototype.indexOf: the 0-based offset of the first occurrence of
\* p in text, -1 when there is none
IndexOf(text, p) ==
  LET at == {i \in 0..(Len(text) - Len(p)) :
               SubSeq(text, i + 1, i + Len(p)) = p}
  IN IF at = {} THEN -1 ELSE CHOOSE i \in at : \A j \in at : i <= j

\* s.slice(-k) for k > 0
SliceLast(s, k) ==
  SubSeq(s, (IF Len(s) > k THEN Len(s) - k ELSE 0) + 1, Len(s))

\* the length of the match at s[i] of the expression a strategy splits by,
\* 0 when there is none:
\*   sentence   /[.!?]\s+/
\*   paragraph  /\n\s*\n/
\*   section    /\n\s*#{1,6}\s+|\n\s*\d+\.\s+|\n\s*[A-Z][A-Z\s]+:/, whose
\*              second and third alternative need a digit or a capital
\*              letter, which Chars does not have
SepLen(kind, s, i) ==
  CASE kind = "sentence" ->
         IF s[i] = "." /\ Spaces(s, i + 1) > 0
         THEN 1 + Spaces(s, i + 1) ELSE 0
    [] kind = "paragraph" ->
         IF s[i] = "\n" /\ Spaces(s, i) >= 2 THEN Spaces(s, i) ELSE 0
    [] OTHER ->
         LET k == Spaces(s, i)
             h == Hashes(s, i + k)
             w == Spaces(s, i + k + h)
         IN IF s[i] = "\n" /\ h >= 1 /\ h <= 6 /\ w >= 1
            THEN k + h + w ELSE 0

RECURSIVE SplitFrom(_, _, _, _)
\* the pieces of s from position p on, i being the position looked at
SplitFrom(kind, s, p, i) ==
  IF i > Len(s) THEN <<SubSeq(s, p, Len(s))>>
  ELSE LET l == SepLen(kind, s, i)
       IN IF l > 0
          THEN <<SubSeq(s, p, i - 1)>> \o SplitFrom(kind, s, i + l, i + l)
          ELSE SplitFrom(kind, s, p, i + 1)

\* String.prototype.split by the expression of a strategy
Split(kind, s) == SplitFrom(kind, s, 1, 1)

RECURSIVE Join(_, _)
\* Array.prototype.join
Join(parts, sep) ==
  IF parts = <<>> THEN <<>>
  ELSE IF Len(parts) = 1 THEN parts[1]
  ELSE parts[1] \o sep \o Join(Tail(parts), sep)

\* the defaults of the chunkSize and chunkOverlap options
DefaultSentences == 3
DefaultSentenceOverlap == 1
DefaultChunkSize == 1000
DefaultFixedOverlap == 100

\* createChunk, without the id (ChunkId) and the metadata
CreateChunk(content, idx, startPosition, fullText) ==
  [content |-> Trim(content), startPosition |-> startPosition,
   endPosition |-> startPosition + Len(content), chunkIndex |-> idx]

SplitIntoSentences(text) ==
  LET kept == SelectSeq(Split("sentence", text), NonBlank)
  IN [k \in 1..Len(kept) |-> Trim(kept[k])]

RECURSIVE SentenceLoop(_, _, _, _, _, _)
\* the for loop of chunkBySentence from i on
SentenceLoop(sentences, i, chunkSize, overlap, chunks, text) ==
  IF i >= Len(sentences) THEN chunks
  ELSE LET content == Join(Slice(sentences, i, i + chunkSize), <<" ">>)
           pushed == IF NonBlank(content)
                     THEN Append(chunks,
                                 CreateChunk(content, Len(chunks), i, text))
                     ELSE chunks
       IN SentenceLoop(sentences, i + chunkSize - overlap, chunkSize,
                       overlap, pushed, text)

ChunkBySentence(text, options) ==
  SentenceLoop(SplitIntoSentences(text), 0,
               IF options.chunkSize = 0 THEN DefaultSentences
               ELSE options.chunkSize,
               IF options.chunkOverlap = 0 THEN DefaultSentenceOverlap
               ELSE options.chunkOverlap,
               <<>>, text)

RECURSIVE ParagraphLoop(_, _, _, _, _)
\* the for loop of chunkByParagraph from paragraph k on; st holds
\* currentChunk, startPosition and chunks
ParagraphLoop(paragraphs, k, st, options, text) ==
  IF k > Len(paragraphs) THEN st
  ELSE LET paragraph == paragraphs[k]
           maxChunkSize == IF options.chunkSize = 0 THEN DefaultChunkSize
                           ELSE options.chunkSize
           overlap == options.chunkOverlap
           next ==
             IF /\ Len(st.currentChunk) + Len(paragraph) > maxChunkSize
                /\ Len(st.currentChunk) > 0
             THEN [chunks |->
                     Append(st.chunks,
                            CreateChunk(Trim(st.currentChunk), Len(st.chunks),
                                        st.startPosition, text)),
                   currentChunk |->
                     IF overlap > 0 /\ Len(st.currentChunk) > overlap
                     THEN SliceLast(st.currentChunk, overlap)
                            \o <<"\n", "\n">> \o paragraph
                     ELSE paragraph,
                   startPosition |-> IndexOf(text, paragraph)]
             ELSE [chunks |-> st.chunks,
                   currentChunk |->
                     st.currentChunk
                       \o (IF Len(st.currentChunk) > 0
                           THEN <<"\n", "\n">> ELSE <<>>)
                       \o paragraph,
                   startPosition |->
                     IF Len(st.currentChunk) = 0
                     THEN IndexOf(text, paragraph) ELSE st.startPosition]
       IN ParagraphLoop(paragraphs, k + 1, next, options, text)

ChunkByParagraph(text, options) ==
  LET paragraphs == SelectSeq(Split("paragraph", text), NonBlank)
      st == ParagraphLoop(paragraphs, 1,
                          [chunks |-> <<>>, currentChunk |-> <<>>,
                           startPosition |-> 0], options, text)
  IN IF NonBlank(st.currentChunk)
     THEN Append(st.chunks,
                 CreateChunk(Trim(st.currentChunk), Len(st.chunks),
                             st.startPosition, text))
     ELSE st.chunks

RECURSIVE SectionLoop(_, _, _, _)
\* sections.forEach from section k on; the chunk index is the section's
SectionLoop(sections, k, chunks, text) ==
  IF k > Len(sections) THEN chunks
  ELSE LET content == Trim(sections[k])
           pushed == IF Len(content) > 0
                     THEN Append(chunks,
                                 CreateChunk(content, k - 1,
                                             IndexOf(text, content), text))
                     ELSE chunks
       IN SectionLoop(sections, k + 1, pushed, text)

ChunkBySection(text, options) ==
  SectionLoop(Split("section", text), 1, <<>>, text)

RECURSIVE FixedSizeLoop(_, _, _, _, _)
\* the for loop of chunkByFixedSize from i on
FixedSizeLoop(text, i, chunkSize, overlap, chunks) ==
  IF i >= Len(text) THEN chunks
  ELSE LET chunk == Slice(text, i, i + chunkSize)
           pushed == IF NonBlank(chunk)
                     THEN Append(chunks,
                                 CreateChunk(chunk, Len(chunks), i, text))
                     ELSE chunks
       IN FixedSizeLoop(text, i + chunkSize - overlap, chunkSize, overlap,
                        pushed)

ChunkByFixedSize(text, options) ==
  FixedSizeLoop(text, 0,
                IF options.chunkSize = 0 THEN DefaultChunkSize
                ELSE options.chunkSize,
                IF options.chunkOverlap = 0 THEN DefaultFixedOverlap
                ELSE options.chunkOverlap,
                <<>>)

\* not implemented: falls back to the paragraphs
ChunkBySemantic(text, options) == ChunkByParagraph(text, options)

\* the switch of createChunks
ChunksOf(text, options) ==
  CASE options.chunkStrategy = "sentence" -> ChunkBySentence(text, options)
    [] options.chunkStrategy = "paragraph" -> ChunkByParagraph(text, options)
    [] options.chunkStrategy = "section" -> ChunkBySection(text, options)
    [] options.chunkStrategy = "fixed_size" -> ChunkByFixedSize(text, options)
    [] options.chunkStrategy = "semantic" -> ChunkBySemantic(text, options)
    [] OTHER -> ChunkByParagraph(text, options)

\* the loops of chunkBySentence and chunkByFixedSize advance by chunkSize -
\* overlap: with a step of 0 or less they do not end on a text that has a
\* sentence or a character, and the call returns no chunks at all
Step(options) ==
  CASE options.chunkStrategy = "sentence" ->
         (IF options.chunkSize = 0 THEN DefaultSentences
          ELSE options.chunkSize)
         - (IF options.chunkOverlap = 0 THEN DefaultSentenceOverlap
            ELSE options.chunkOverlap)
    [] options.chunkStrategy = "fixed_size" ->
         (IF options.chunkSize = 0 THEN DefaultChunkSize
          ELSE options.chunkSize)
         - (IF options.chunkOverlap = 0 THEN DefaultFixedOverlap
            ELSE options.chunkOverlap)
    [] OTHER -> 1

\* process calls createChunks with a text that is not blank
Texts == {t \in UNION {[1..n -> Chars] : n \in 1..MaxText} : NonBlank(t)}

Strategies == {"sentence", "paragraph", "section", "fixed_size", "semantic"}

\* chunkSize and chunkOverlap 0: the option is not set
ChunkOptions ==
  [chunkStrategy : Strategies, chunkSize : 0..MaxSize,
   chunkOverlap : 0..MaxOverlap]

\* a call of createChunks that returns
CreateChunksCall(text, options) ==
  /\ fcall = NoCall
  /\ Step(options) > 0
  /\ fcall' = [fn |-> "createChunks",
               in |-> [text |-> text, options |-> options],
               out |-> ChunksOf(text, options)]
  /\ UNCHANGED <<docs, index, files, job, srch, del, ecall>>

\* ------------------------- the loops of chunkBySentence, chunkByFixedSize
\* The for loops of the two strategies, one iteration a step: i runs from 0
\* while i < length, where length is sentences.length (sentence) or
\* text.length (fixed_size), and advances by chunkSize - overlap.  A
\* negative i stays negative; all negative values are kept as -1.
LoopOptions ==
  {o \in ChunkOptions : o.chunkStrategy \in {"sentence", "fixed_size"}}

StartChunking(length, options) ==
  /\ fcall = NoCall \/ (fcall.fn = "chunking" /\ fcall.out.returned)
  /\ fcall' = [fn |-> "chunking",
               in |-> [length |-> length, options |-> options],
               out |-> [i |-> 0, returned |-> FALSE]]
  /\ UNCHANGED <<docs, index, files, job, srch, del, ecall>>

\* the loop test, and the body with i += chunkSize - overlap when it holds
LoopStep ==
  /\ fcall.fn = "chunking"
  /\ ~fcall.out.returned
  /\ LET next == fcall.out.i + Step(fcall.in.options)
     IN fcall' =
          IF fcall.out.i < fcall.in.length
          THEN [fcall EXCEPT !.out.i = IF next < 0 THEN -1 ELSE next]
          ELSE [fcall EXCEPT !.out.returned = TRUE]
  /\ UNCHANGED <<docs, index, files, job, srch, del, ecall>>

\* ------------------------------------------------ RAGManager.generateAnswer
\* the results buildContext keeps
ContextLimit == 5

\* buildContext: searchResults.slice(0, 5), each result turned into its
\* 'Title: .. Content: ..' block; the context is kept as the list of the
\* results whose blocks it holds
BuildContext(searchResults) == Slice(searchResults, 0, ContextLimit)

\* the searchResults of a request: any list, result k being of document k
\* with any relevanceScore
ResultLists ==
  UNION {{[k \in 1..n |-> [doc |-> k, score |-> f[k]]] : f \in [1..n -> 1..2]}
           : n \in 0..MaxResults}

\* RAGManager.generateAnswer: the context is built, the GenerationService
\* is called with it (ok: it answers), the insights are extracted and all
\* results are listed as usedSources; an error is rethrown as
\* GenerationError
RAGGenerateAnswer(searchResults, ok) ==
  /\ fcall = NoCall
  /\ fcall' = [fn |-> "RAGManager.generateAnswer",
               in |-> [searchResults |-> searchResults, ok |-> ok],
               out |-> [raised |-> ~ok,
                        context |-> BuildContext(searchResults),
                        usedSources |->
                          IF ok THEN [k \in 1..Len(searchResults) |->
                                        searchResults[k].doc]
                          ELSE <<>>]]
  /\ UNCHANGED <<docs, index, files, job, srch, del, ecall>>

\* the caller has taken the result of the call
Return ==
  /\ fcall # NoCall
  /\ fcall' = NoCall
  /\ UNCHANGED <<docs, index, files, job, srch, del, ecall>>

\* ------------------------------------------------------------ specification
TextLists(n) == UNION {[1..m -> Contents] : m \in 0..n}

\* the chunk texts of a document: a first chunk "a", then chunks "b"
ChunkTexts(n) == {[k \in 1..m |-> IF k = 1 THEN "a" ELSE "b"] : m \in 1..n}

\* the Date.now() readings of one chunking run: non-decreasing
Readings(n) ==
  {t \in [1..n -> 1..MaxTime] : \A k \in 1..(n - 1) : t[k] <= t[k + 1]}

ChunkIds == {ChunkId(i, t) : i \in 0..(MaxChunks - 1), t \in 1..MaxTime}

\* the chunkIds arguments of deleteChunks: one id, or all ids
ChunkIdLists == {{c} : c \in ChunkIds} \cup {ChunkIds}

Init ==
  /\ docs = [d \in DocIds |-> NoDoc]
  /\ index = {}
  /\ files = {}
  /\ job = [j \in DocIds |-> IdleJob]
  /\ srch = IdleSearch
  /\ del = IdleDelete
  /\ ecall = IdleEmbedCall
  /\ fcall = NoCall

Ingest ==
  \E j \in DocIds :
    \/ \E t \in Tenants, texts \in ChunkTexts(MaxChunks),
            extracted \in Extractions :
         \E times \in Readings(Len(texts)) :
           Process(j, t, texts, times, extracted)
    \/ \E o \in Outcomes : EmbedChunks(j, o)
    \/ \E ok \in BOOLEAN : SaveDocument(j, ok)
    \/ \E ok \in BOOLEAN : IndexChunks(j, ok)
    \/ \E hasFile \in BOOLEAN, ok \in BOOLEAN :
         UpdateDocumentStatus(j, hasFile, ok)
    \/ \E ok \in BOOLEAN : UploadFile(j, ok)

Search ==
  \/ \E t \in Tenants, q \in Contents : StartSearch(t, q)
  \/ \E o \in Outcomes : EmbedQuery(o)
  \/ \E scoped \in BOOLEAN, ok \in BOOLEAN : VectorSearch(scoped, ok)
  \/ \E ok \in BOOLEAN : GetDocument(ok)

Delete ==
  \/ \E d \in DocIds, t \in Tenants : StartDelete(d, t)
  \/ \E ok \in BOOLEAN : DeleteVectors(ok)
  \/ \E ok \in BOOLEAN : DeleteRecord(ok)
  \/ \E ok \in BOOLEAN : ListFiles(ok)
  \/ \E f \in files, ok \in BOOLEAN : DeleteFile(f, ok)
  \/ \E ids \in ChunkIdLists, t \in Tenants : DeleteChunks(ids, t)

Embed ==
  \/ \E texts \in TextLists(MaxTexts), b \in 1..MaxBatch : StartEmbed(texts, b)
  \/ \E o \in Outcomes : EmbedBatch(o)
  \/ EmbedDelay

\* ingestion and retrieval
Next == Ingest \/ Search

Spec == Init /\ [][Next]_vars

\* ingestion and deletion
DeleteNext == Ingest \/ Delete

DeleteSpec == Init /\ [][DeleteNext]_vars

\* the EmbeddingService alone
EmbedSpec == Init /\ [][Embed]_vars

\* the same, where a provider call that is pending gets its answer and a
\* timer that is running fires
EmbedLiveSpec ==
  /\ Init
  /\ [][Embed]_vars
  /\ WF_vars(\E o \in Outcomes : EmbedBatch(o))
  /\ WF_vars(EmbedDelay)

\* the EmbeddingService with a provider that answers a request with one
\* vector of the model's dimension per input, or with a failure
WellFormed == {"ok", "rate_limit", "error"}

EmbedWellFormed ==
  \/ \E texts \in TextLists(MaxTexts), b \in 1..MaxBatch : StartEmbed(texts, b)
  \/ \E o \in WellFormed : EmbedBatch(o)
  \/ EmbedDelay

BatchSpec == Init /\ [][EmbedWellFormed]_vars

\* calls of validateEmbedding
ValidateNext == \E e \in Embeddings : Validate(e)

ValidateSpec == Init /\ [][ValidateNext]_vars

\* calls of searchDocuments, each taken as one computation
SearchCalls ==
  \/ fcall = NoCall /\ \E request \in SearchRequests : SearchDocuments(request)
  \/ Return

RankSpec == Init /\ [][SearchCalls]_vars

\* calls of calculateSalesRelevance
SalesCalls ==
  \/ /\ fcall = NoCall
     /\ \E document \in SalesDocuments, context \in SalesContexts :
          SalesRelevance(document, context)
  \/ Return

SalesSpec == Init /\ [][SalesCalls]_vars

\* the chunking loops on texts of 1..MaxText sentences or characters; an
\* iteration that is due is executed
ChunkLoopNext ==
  \/ \E length \in 1..MaxText, options \in LoopOptions :
       StartChunking(length, options)
  \/ LoopStep

ChunkLoopSpec == Init /\ [][ChunkLoopNext]_vars /\ WF_vars(LoopStep)

\* calls of generateEmbeddings on services of every provider
EmbedDispatchCalls ==
  \/ /\ fcall = NoCall
     /\ \E provider \in EmbedProviders, texts \in TextLists(MaxTexts),
           ok \in BOOLEAN : GenerateEmbeddings(provider, texts, ok)
  \/ Return

EmbedDispatchSpec == Init /\ [][EmbedDispatchCalls]_vars

\* calls of RAGManager.generateAnswer
AnswerCalls ==
  \/ /\ fcall = NoCall
     /\ \E searchResults \in ResultLists, ok \in BOOLEAN :
          RAGGenerateAnswer(searchResults, ok)
  \/ Return

AnswerSpec == Init /\ [][AnswerCalls]_vars

\* calls of GenerationService.generateAnswer
GenerateCalls ==
  \/ \E provider \in Providers, a \in Answers, ok \in BOOLEAN :
       GenerateAnswer(provider, a, ok)
  \/ Return

GenerateSpec == Init /\ [][GenerateCalls]_vars

\* calls of createChunks
ChunkCalls ==
  \/ /\ fcall = NoCall
     /\ \E text \in Texts, options \in ChunkOptions :
          CreateChunksCall(text, options)
  \/ Return

ChunkSpec == Init /\ [][ChunkCalls]_vars

\* ------------------------------------------------------------------ claims
\* the tenant whose processDocument call created document d
Owner(d) == job[d].tenant

\* the index rows of document d
Rows(d) == {r \in index : r.document_id = d}

\* C1: a search issued with tenant T1 never returns a chunk indexed for a
\* document of another tenant, neither from VectorDatabase.search (hits) nor
\* from RAGManager.searchDocuments (results).
C1_TenantIsolation ==
  /\ \A k \in 1..Len(srch.hits) :
        Owner(srch.hits[k].row.document_id) = srch.tenant
  /\ \A k \in 1..Len(srch.results) :
        Owner(srch.results[k].row.document_id) = srch.tenant

\* C2: when deleteDocument(D, T) succeeds on the vector index for a document
\* D of tenant T, the index holds no row with document id D.
C2_DeleteRoundTrip ==
  [][(DeleteVectors(TRUE) /\ Owner(del.doc) = del.tenant)
       => Rows(del.doc)' = {}]_vars

\* C3: a document record flagged vectorized or indexed has all of its chunks
\* in the index, whatever step of processDocument failed or was not reached.
C3_FlaggedImpliesIndexed ==
  \A d \in DocIds :
    (docs[d].present /\ (docs[d].vectorized \/ docs[d].indexed))
      => /\ job[d].n > 0
         /\ Cardinality(Rows(d)) = job[d].n
         /\ job[d].pc \in {"upload", "done", "failed"}

\* a record is flagged, its call had two chunks and failed after the index
\* write (the upload of the original failed)
C3_Witness ==
  \E d \in DocIds :
    /\ docs[d].vectorized
    /\ job[d].n = 2
    /\ job[d].pc = "failed"
    /\ Cardinality(Rows(d)) = 2

\* C4: at every point where a search can read the index, the index holds
\* none of a document's chunks or all of them.
C4_NoPartialDocument ==
  \A d \in DocIds : Rows(d) = {} \/ Cardinality(Rows(d)) = job[d].n

\* a search is about to read the index while one two-chunk document is fully
\* indexed and another call is about to write its chunks
C4_Witness ==
  /\ srch.pc = "search"
  /\ \E d, e \in DocIds :
       /\ job[d].n = 2
       /\ Cardinality(Rows(d)) = 2
       /\ job[e].pc = "index"
       /\ job[e].n = 2

\* C5: the provider is called at most twice for one batch.
C5_AtMostTwoCalls == ecall.attempts <= 2

\* C6: a generateBatchEmbeddings call that is running eventually returns its
\* vectors or raises.
C6_EmbeddingTerminates == (ecall.st = "run") ~> (ecall.st \in {"ok", "err"})

\* C7: searchDocuments never returns a result list after the record-store
\* fetch of a hit's document has failed.
C7_AllOrError == srch.pc = "done" => ~srch.fetchFailed

\* the call has raised exactly when the index deletion or the record
\* deletion failed, and has returned when the blob store failed
C8_RaisedIff ==
  /\ del.pc = "raised" <=> (del.vecFailed \/ del.recFailed)
  /\ del.s3Failed => del.pc = "done"

\* the step that catches a blob-store failure comes after both deletions,
\* changes neither store and makes the call return
C8_S3FailureStep ==
  (del'.s3Failed /\ ~del.s3Failed)
    => /\ docs' = docs
       /\ index' = index
       /\ del.pc \in {"list", "files"}
       /\ del'.pc = "done"

\* C8: deleteDocument raises exactly when the index deletion or the record
\* deletion failed; a blob-store failure makes the call return, and the step
\* in which it is caught undoes nothing: it leaves the record store and the
\* index as the completed deletions left them.
C8_DeleteErrorPolicy == [](C8_RaisedIff) /\ [][C8_S3FailureStep]_vars

\* the blob store has failed after the record of an indexed document was
\* deleted, and the call has returned
C8_Witness ==
  /\ del.pc = "done"
  /\ del.s3Failed
  /\ \E d \in DocIds : job[d].pc = "done" /\ ~docs[d].present

\* what a step removes or changes belongs to tenant t
C9_Frame(t) ==
  /\ \A r \in index \ index' : Owner(r.document_id) = t
  /\ \A d \in DocIds : docs'[d] # docs[d] => docs[d].tenant = t
  /\ \A f \in files \ files' : f.tenant = t

\* C9: a step of deleteDocument(id, T) or deleteChunks(ids, T) removes or
\* changes no vector, record or archived file of a tenant other than T.
C9_CrossTenantGuard ==
  [][/\ (del.pc \in {"vectors", "record", "list", "files"} /\ del' # del)
          => C9_Frame(del.tenant)
     /\ \A ids \in ChunkIdLists, t \in Tenants :
          DeleteChunks(ids, t) => C9_Frame(t)]_vars

\* C10: a chunk whose embedding is missing or of another length than the
\* configured dimension never reaches indexChunks.
C10_ValidatedBeforeIndex ==
  \A j \in DocIds :
    job[j].pc = "index"
      => \A k \in 1..Len(job[j].chunks) :
           ValidateEmbedding(job[j].chunks[k].embedding)

\* C11: with a provider that answers well-formed, generateBatchEmbeddings
\* of n texts with batch size b works through the texts in slices of b from
\* offset 0 (each text in one batch), pauses only between two batches, and
\* returns after ceil(n/b) batches exactly n vectors, the k-th being the
\* provider's vector for the k-th text.
C11_Batching ==
  LET n == Len(ecall.texts)
      b == ecall.b
  IN /\ ecall.i % b = 0
     /\ ecall.i < n + b
     /\ Len(ecall.out) = Min(ecall.i, n)
     /\ \A k \in 1..Len(ecall.out) :
          ecall.out[k] = [len |-> Dimensions, kinds |-> {"finite"},
                          v |-> ProviderVector(ecall.texts[k])]
     /\ ecall.st = "pause" => (0 < ecall.i /\ ecall.i < n)
     /\ ecall.st = "ok" => /\ ecall.i = b * ((n + b - 1) \div b)
                           /\ Len(ecall.out) = n

\* a call with three texts and batch size two has returned
C11_Witness ==
  /\ ecall.st = "ok"
  /\ Len(ecall.texts) = 3
  /\ ecall.b = 2
  /\ Len(ecall.out) = 3

\* C12: validateEmbedding accepts a vector exactly when its length is the
\* configured dimension and every component is a finite number.
C12_ValidateEmbedding ==
  fcall.fn = "validateEmbedding"
    => (fcall.out <=> (fcall.in.len = Dimensions /\ fcall.in.kinds = {"finite"}))

\* the similarity of a row to the query of the call
C13_Sim(r) == Cosine100(r.embedding.v, fcall.in.query)

\* every returned hit scores strictly above the threshold in force
C13_AboveThreshold ==
  fcall.fn = "searchDocuments"
    => \A k \in 1..Len(fcall.out.results) :
         C13_Sim(fcall.out.results[k].row)
           > EffectiveThreshold(fcall.in.threshold)

\* a search whose index answers and in which no chunk of a document of the
\* tenant scores above the threshold returns the empty list
C13_EmptyNotError ==
  (/\ fcall.fn = "searchDocuments"
   /\ fcall.in.ok
   /\ \A r \in fcall.in.rows :
        r.document.found
          => C13_Sim(r) <= EffectiveThreshold(fcall.in.threshold))
    => fcall.out = [raised |-> FALSE, results |-> <<>>]

\* C13: every hit returned by a search has a similarity strictly above the
\* threshold of the request (the default when the request gives none), and
\* when no chunk of the tenant scores above it the search returns an empty
\* list and raises nothing.
C13_ThresholdEligibility == C13_AboveThreshold /\ C13_EmptyNotError

\* a search with threshold 0.97 over an index whose best chunk of the tenant
\* scores 0.96 has returned the empty list
C13_Witness ==
  /\ fcall.fn = "searchDocuments"
  /\ fcall.in.threshold = 97
  /\ \E r \in fcall.in.rows : r.document.found /\ C13_Sim(r) = 96
  /\ \A r \in fcall.in.rows : C13_Sim(r) < 97
  /\ fcall.out = [raised |-> FALSE, results |-> <<>>]

\* the ranking key of the specification, doubled: retrieval score plus
\* domain-relevance score when the request has a domain context (a score of
\* 0 included), twice the retrieval score otherwise
C14_Key(r) ==
  IF fcall.in.context.given THEN r.score + Value(r.sales) ELSE 2 * r.score

C16_ConfidenceBounds ==
  (fcall.fn = "generateAnswer" /\ ~fcall.out.raised)
    => (1000 <= fcall.out.confidence /\ fcall.out.confidence <= 9500)

\* both ends occur: a long answer repeating a context of 150 words gets
\* 0.95 although 0.5 + 0.2 + 0.45 was computed
C16_Witness ==
  /\ fcall.fn = "generateAnswer"
  /\ ~fcall.out.raised
  /\ fcall.in.answer.answerLength = 501
  /\ fcall.in.answer.overlap = 150
  /\ fcall.in.answer.phrases = 0
  /\ fcall.out.confidence = 9500

\* C17: a GenerationService constructed with provider P calls no client but
\* P's, and returns what that client answers; when P is unsupported or not
\* implemented, or its client is missing, generateAnswer raises and calls no
\* client at all.
C17_ProviderDispatch ==
  fcall.fn = "generateAnswer"
    => /\ fcall.out.called \subseteq {fcall.in.provider}
       /\ fcall.in.provider \in {"openai", "anthropic"}
            => /\ fcall.out.called = {fcall.in.provider}
               /\ fcall.out.raised = ~fcall.in.ok
       /\ fcall.in.provider \notin {"openai", "anthropic"}
            => (fcall.out.raised /\ fcall.out.called = {})

\* a request to a service configured for yandex has raised without a call
\* to another provider's client
C17_Witness ==
  /\ fcall.fn = "generateAnswer"
  /\ fcall.in.provider = "yandex"
  /\ fcall.in.ok
  /\ fcall.out.raised
  /\ fcall.out.called = {}

\* C19: the error raised by processDocument identifies the stage that
\* failed: an extraction failure carries the extraction tag, and failures
\* of different stages carry different tags.
C19_StageIdentified ==
  /\ \A j \in DocIds :
       (job[j].pc = "failed" /\ job[j].stage = "extract")
         => job[j].tag = "EXTRACTION_FAILED"
  /\ \A i, j \in DocIds :
       (job[i].pc = "failed" /\ job[j].pc = "failed"
          /\ job[i].stage # job[j].stage) => job[i].tag # job[j].tag

\* C20: every chunk produced by createChunks, whatever the strategy and the
\* size and overlap options, has 0 <= startPosition <= endPosition <= the
\* length of the text.
C20_ChunkPositions ==
  fcall.fn = "createChunks"
    => \A k \in 1..Len(fcall.out) :
         /\ 0 <= fcall.out[k].startPosition
         /\ fcall.out[k].startPosition <= fcall.out[k].endPosition
         /\ fcall.out[k].endPosition <= Len(fcall.in.text)

\* C21: a document whose extracted text is empty after trimming is a
\* reported condition: processDocument does not raise, and nothing is
\* written to the record store or to the index.
C21_EmptyInputReported ==
  \A j \in DocIds :
    job[j].blank
      => /\ job[j].pc # "failed"
         /\ ~docs[j].present
         /\ Rows(j) = {}

\* C22: in the list returned by searchDocuments, of two hits with the same
\* final ranking key the one with the higher retrieval score comes first,
\* and of two with the same retrieval score too, the one of the newer
\* document.
C22_TieBreaking ==
  (fcall.fn = "searchDocuments" /\ ~fcall.out.raised)
    => LET res == fcall.out.results
       IN \A i, j \in 1..Len(res) :
            (i < j /\ C14_Key(res[i]) = C14_Key(res[j]))
              => \/ res[i].score > res[j].score
                 \/ /\ res[i].score = res[j].score
                    /\ res[i].row.document.createdAt
                         >= res[j].row.document.createdAt

\* the score of the specification in units of 10^-5, for a context whose
\* product-id list has n > 0 entries of which k are in the document
C23_Weighted(document, context) ==
  LET n == Cardinality(context.productIds)
      k == Cardinality(context.productIds \cap document.productIds)
  IN (IF n > 0 THEN (30000 * k) \div n ELSE 0)
     + (IF context.salesStage \in document.salesStages THEN 20000 ELSE 0)
     + (IF context.customerSegment \in document.customerSegments
        THEN 20000 ELSE 0)
     + (IF context.urgencyLevel = "critical" THEN 10000 ELSE 0)
     + (IF document.accessCount > 10 THEN 20000 ELSE 0)

\* C23: for every document and every context, an empty product-id list and
\* a document without metadata included, calculateSalesRelevance returns a
\* number in [0, 1], the weighted sum of the specification capped at 1.
C23_SalesRelevance ==
  fcall.fn = "calculateSalesRelevance"
    => /\ 0 <= fcall.out
       /\ fcall.out <= 100000
       /\ fcall.out
            = Min(C23_Weighted(fcall.in.document, fcall.in.context), 100000)

\* the scores of a list of results, highest first
C24_Scores(results) ==
  LET sorted == SortDesc(results)
  IN [k \in 1..Len(sorted) |-> sorted[k].score]

\* C24: whatever the order of the search results handed to generateAnswer,
\* the context given to the generator holds at most five results, and they
\* are the five highest-ranked of the list.
C24_TopFiveContext ==
  fcall.fn = "RAGManager.generateAnswer"
    => /\ Len(fcall.out.context) <= 5
       /\ C24_Scores(fcall.out.context)
            = SubSeq(C24_Scores(fcall.in.searchResults), 1,
                     Min(5, Len(fcall.in.searchResults)))

\* C25: after processDocument has raised, whichever step failed, the index
\* holds no vector written by the call and the record created by the call
\* is not flagged vectorized or indexed.
C25_NoTraceOfFailedCall ==
  \A j \in DocIds :
    job[j].pc = "failed"
      => /\ Rows(j) = {}
         /\ ~(docs[j].present /\ (docs[j].vectorized \/ docs[j].indexed))

\* no processDocument or deleteDocument call is under way
C26_AllFinished ==
  /\ \A j \in DocIds : job[j].pc \in {"idle", "done", "failed"}
  /\ del.pc \in {"idle", "done", "raised"}

\* C26: once all processDocument and deleteDocument calls have finished,
\* however they were interleaved, every vector of the index carries the id
\* of a document whose record exists.
C26_NoOrphanVectors ==
  C26_AllFinished => \A r \in index : docs[r.document_id].present

\* the chunk ids a processDocument call holds
C27_Ids(j) == {job[j].chunks[k].id : k \in 1..Len(job[j].chunks)}

\* C27: no two chunks receive the same id, whether of one document or of
\* two, whatever the interleaving of the calls and the clock readings: the
\* chunks of a call have distinct ids, which are the ids of no other call's
\* chunks and of no row of another document in the index.
C27_UniqueChunkIds ==
  \A j \in DocIds :
    /\ Cardinality(C27_Ids(j)) = Len(job[j].chunks)
    /\ \A i \in DocIds \ {j} : C27_Ids(i) \cap C27_Ids(j) = {}
    /\ \A r \in index : r.document_id # j => r.chunk_id \notin C27_Ids(j)

\* C28: the loops of the fixed_size and sentence strategies end for every
\* text and every chunkSize and chunkOverlap, an overlap of the size or
\* more and a defaulted overlap included: a chunking call that has started
\* returns.
C28_ChunkingTerminates ==
  (fcall.fn = "chunking") ~> (fcall.fn = "chunking" /\ fcall.out.returned)

\* C29: when deleteDocument returns or raises for a document that has been
\* ingested, the document's vectors and its record are both removed or
\* both still there; a failed record deletion in particular leaves no
\* record without its vectors.
C29_DeleteAtomic ==
  [][(/\ del.pc \in {"vectors", "record", "list", "files"}
      /\ del'.pc \in {"done", "raised"}
      /\ job[del.doc].pc = "done")
       => LET d == del.doc
          IN ({r \in index' : r.document_id = d} = {}) <=> ~docs'[d].present]_vars

====
